---------------------------- MODULE Spec2Model ----------------------------
(***************************************************************************)
(* Model of the tape compiler of jitfive/src/backend/tape64.rs:            *)
(*   SsaTapeBuilder  lowers a Scheduled DAG to an SSA tape,                *)
(*   SsaTape::simplify  shortens an SSA tape under a choice vector and     *)
(*                      drives SsaTapeAllocator, which emits the asm tape, *)
(*   SsaTapeEval::f  is the reference evaluator,                           *)
(*   Tape::new_with_reg_limit / Tape::simplify  bundle the two tapes.      *)
(*                                                                         *)
(* f32 values are modelled by integers: every modelled constant and every  *)
(* value computed from the modelled samples with Neg, Abs, Square, Add,    *)
(* Sub, Mul, Min and Max is an integer that f32 represents exactly.        *)
(* RecipReg and SqrtReg take the same match arms as the other unary ops in *)
(* the builder, the simplifier and the allocator; they are not drawn as    *)
(* inputs because their values are not integers.                           *)
(*                                                                         *)
(* A Rust panic (a failed assert!, unwrap, index or an explicit panic!) is *)
(* modelled by pc = "panic" with the place recorded in the variable panic. *)
(***************************************************************************)
EXTENDS Integers, Sequences, FiniteSets, TLC

----------------------------------------------------------------------------
(* Bounds of the model *)

\* Largest number of nodes of a drawn Scheduled
MaxNodes == 3

\* Largest register limit drawn (reg_limit ranges over 1..MaxRegLimit)
MaxRegLimit == 2

\* Samples are drawn from 0..MaxCoord on every axis
MaxCoord == 2

\* Constants of Op::Const are drawn from 1..MaxConst
MaxConst == 2

----------------------------------------------------------------------------
(* Program constants and sentinels *)

\* u32::MAX, the allocator's "unassigned" / "free" marker.  TLC's integers
\* are 32-bit signed, so the marker is the largest of them; the code only
\* relies on it being larger than every slot and register index.
U32_MAX == 2147483647

\* Option::None of active[..] and of spare_registers.pop().or_else(..)
None == -1

\* Names of the variables a Scheduled may carry; "W" is not an axis.
VarNames == {"X", "Y", "Z", "W"}

UnaryOpcodes == {"Neg", "Abs", "Square"}
BinaryOpcodes == {"Add", "Mul", "Sub"}
BinaryChoiceOpcodes == {"Min", "Max"}

\* enum Choice, with the Unknown that simplify matches on
Choice == {"Left", "Right", "Both", "Unknown"}

----------------------------------------------------------------------------
(* f32 <-> u32 bit reinterpretation (f32::to_bits / f32::from_bits) for    *)
(* the non-negative integers below 2^24, which f32 represents exactly:     *)
(* sign 0, biased exponent 127 + e, 23-bit mantissa.                       *)

RECURSIVE Pow2(_)
Pow2(n) == IF n = 0 THEN 1 ELSE 2 * Pow2(n - 1)

RECURSIVE Log2Floor(_)
Log2Floor(m) == IF m <= 1 THEN 0 ELSE 1 + Log2Floor(m \div 2)

to_bits(v) ==
    IF v = 0 THEN 0
    ELSE LET e == Log2Floor(v)
         IN (127 + e) * Pow2(23) + (v - Pow2(e)) * Pow2(23 - e)

from_bits(w) ==
    IF w = 0 THEN 0
    ELSE LET e == (w \div Pow2(23)) - 127
             mant == w % Pow2(23)
         IN (Pow2(23) + mant) \div Pow2(23 - e)

----------------------------------------------------------------------------
(* Sequence helpers *)

Reverse(s) == [i \in 1..Len(s) |-> s[Len(s) + 1 - i]]

\* Vec indexing v[i] with a 0-based index
At(v, i) == v[i + 1]

\* v[i] = x on a Vec with a 0-based index
Put(v, i, x) == [v EXCEPT ![i + 1] = x]

\* vec![x; n]
Fill(x, n) == [i \in 1..n |-> x]

\* Vec::pop: the vector without its last element
Front(v) == SubSeq(v, 1, Len(v) - 1)

Last(v) == v[Len(v)]

----------------------------------------------------------------------------
(* Scheduled: the input of the builder.  Node i of the list has NodeIndex  *)
(* i; an op is a record [kind, op, a, b]:                                  *)
(*   Var(v)                 kind "Var",   op = the name vars maps v to     *)
(*   Const(c)               kind "Const", a = c                            *)
(*   Unary(op, lhs)         kind "Unary", a = lhs                          *)
(*   Binary(op, lhs, rhs)   kind "Binary", a = lhs, b = rhs                *)
(*   BinaryChoice(op, lhs, rhs, ..)  kind "BinaryChoice", a = lhs, b = rhs *)

OpVar(v) == [kind |-> "Var", op |-> v, a |-> 0, b |-> 0]
OpConst(c) == [kind |-> "Const", op |-> "", a |-> c, b |-> 0]
OpUnary(o, l) == [kind |-> "Unary", op |-> o, a |-> l, b |-> 0]
OpBinary(o, l, r) == [kind |-> "Binary", op |-> o, a |-> l, b |-> r]
OpBinaryChoice(o, l, r) == [kind |-> "BinaryChoice", op |-> o, a |-> l, b |-> r]

\* The ops node i may carry: its inputs precede it in the list
NodeOps(i) ==
    {OpVar(v) : v \in VarNames}
    \cup {OpConst(c) : c \in 1..MaxConst}
    \cup {OpUnary(o, l) : o \in UnaryOpcodes, l \in 1..(i - 1)}
    \cup {OpBinary(o, l, r) : o \in BinaryOpcodes, l \in 1..(i - 1), r \in 1..(i - 1)}
    \cup {OpBinaryChoice(o, l, r) :
            o \in BinaryChoiceOpcodes, l \in 1..(i - 1), r \in 1..(i - 1)}

\* op.iter_children()
Children(op) ==
    CASE op.kind \in {"Var", "Const"} -> {}
      [] op.kind = "Unary" -> {op.a}
      [] OTHER -> {op.a, op.b}

\* The nodes of t[1..i] that the nodes in `seen` reach, walking from i down
RECURSIVE ReachFrom(_, _, _)
ReachFrom(t, i, seen) ==
    IF i = 0 THEN seen
    ELSE ReachFrom(t, i - 1, IF i \in seen THEN seen \cup Children(t[i]) ELSE seen)

\* schedule() emits exactly the nodes its root reaches, the root last
RootReachesAll(t) == ReachFrom(t, Len(t), {Len(t)}) = 1..Len(t)

RECURSIVE TopoLists(_)
TopoLists(n) ==
    IF n = 0 THEN {<<>>}
    ELSE {Append(t, o) : t \in TopoLists(n - 1), o \in NodeOps(n)}

Scheduleds(max) ==
    UNION {{t \in TopoLists(n) : RootReachesAll(t)} : n \in 1..max}

----------------------------------------------------------------------------
(* SsaTapeBuilder *)

\* SsaTapeBuilder::new
BuilderNew ==
    [iter |-> 0, tape |-> <<>>, data |-> <<>>, mapping |-> <<>>,
     constants |-> <<>>, choice_count |-> 0, panic |-> ""]

\* enum Location
Slot(r) == [slot |-> TRUE, v |-> r]
Immediate(c) == [slot |-> FALSE, v |-> c]

\* A builder that takes every operand for a register (and so never sees
\* f(imm) or f(imm, imm)): what C21 must tell apart from the builder
get_allocated_value_slot(bs, node) ==
    IF node \in DOMAIN bs.mapping
    THEN Slot(bs.mapping[node])
    ELSE Slot(0)

\* SsaTapeBuilder::get_allocated_value; the unwrap of a node that is in
\* neither table cannot fail on a list whose inputs precede their uses
get_allocated_value(bs, node) ==
    IF node \in DOMAIN bs.mapping
    THEN Slot(bs.mapping[node])
    ELSE Immediate(bs.constants[node])

\* The end of step: push the op and record the node's slot
BuilderPush(bs, node, index, op, words) ==
    [bs EXCEPT !.tape = Append(@, op),
               !.data = @ \o words,
               !.mapping = (node :> index) @@ @]

BuilderPanic(bs, why) == [bs EXCEPT !.panic = why]

\* The (RegReg, RegImm, ImmReg) opcodes of a Binary op
BinaryForms(o) ==
    CASE o = "Add" -> <<"AddRegReg", "AddRegImm", "AddRegImm">>
      [] o = "Mul" -> <<"MulRegReg", "MulRegImm", "MulRegImm">>
      [] o = "Sub" -> <<"SubRegReg", "SubRegImm", "SubImmReg">>

\* The (RegReg, RegImm) opcodes of a BinaryChoice op
ChoiceForms(o) ==
    CASE o = "Min" -> <<"MinRegReg", "MinRegImm">>
      [] o = "Max" -> <<"MaxRegReg", "MaxRegImm">>

UnaryForm(o) ==
    CASE o = "Neg" -> "NegReg"
      [] o = "Abs" -> "AbsReg"
      [] o = "Square" -> "SquareReg"

\* The match (lhs, rhs) of Binary and BinaryChoice; f is <<RegReg, RegImm,
\* ImmReg>>.  The words are pushed last-consumed first.
BuilderBinary(bs, node, index, lhs, rhs, f) ==
    CASE lhs.slot /\ rhs.slot ->
            BuilderPush(bs, node, index, f[1], <<rhs.v, lhs.v, index>>)
      [] lhs.slot /\ ~rhs.slot ->
            BuilderPush(bs, node, index, f[2], <<to_bits(rhs.v), lhs.v, index>>)
      [] ~lhs.slot /\ rhs.slot ->
            BuilderPush(bs, node, index, f[3], <<to_bits(lhs.v), rhs.v, index>>)
      [] OTHER -> BuilderPanic(bs, "Cannot handle f(imm, imm)")

\* SsaTapeBuilder::step
step(bs, node, op) ==
    LET index == Cardinality(DOMAIN bs.mapping) IN
    CASE op.kind = "Var" ->
            IF op.op \in {"X", "Y", "Z"}
            THEN LET arg == CASE op.op = "X" -> 0
                              [] op.op = "Y" -> 1
                              [] op.op = "Z" -> 2
                 IN BuilderPush(bs, node, index, "Input", <<arg, index>>)
            ELSE BuilderPanic(bs, "unknown variable")
      [] op.kind = "Const" ->
            [bs EXCEPT !.constants = (node :> op.a) @@ @]
      [] op.kind = "Binary" ->
            BuilderBinary(bs, node, index,
                          get_allocated_value(bs, op.a),
                          get_allocated_value(bs, op.b),
                          BinaryForms(op.op))
      [] op.kind = "BinaryChoice" ->
            LET bc == [bs EXCEPT !.choice_count = @ + 1]
                f == ChoiceForms(op.op)
            IN BuilderBinary(bc, node, index,
                             get_allocated_value(bc, op.a),
                             get_allocated_value(bc, op.b),
                             <<f[1], f[2], f[2]>>)
      [] op.kind = "Unary" ->
            LET lhs == get_allocated_value(bs, op.a) IN
            IF lhs.slot
            THEN BuilderPush(bs, node, index, UnaryForm(op.op), <<lhs.v, index>>)
            ELSE BuilderPanic(bs, "Cannot handle f(imm)")

\* builder.run() on the whole list t, stopping at the first panic
RECURSIVE run(_, _)
run(bs, t) ==
    IF bs.panic # "" \/ bs.iter = Len(t) THEN bs
    ELSE run([step(bs, bs.iter + 1, t[bs.iter + 1]) EXCEPT !.iter = @ + 1], t)

----------------------------------------------------------------------------
(* Opcode classes of ClauseOp64, as the match arms group them *)

UnaryRegOps == {"NegReg", "AbsReg", "RecipReg", "SqrtReg", "SquareReg"}
RegRegOps == {"AddRegReg", "MulRegReg", "SubRegReg"}
RegImmOps == {"AddRegImm", "MulRegImm", "SubRegImm", "SubImmReg"}
ChoiceRegImmOps == {"MinRegImm", "MaxRegImm"}
ChoiceRegRegOps == {"MinRegReg", "MaxRegReg"}
ChoiceOps == ChoiceRegImmOps \cup ChoiceRegRegOps

\* Words of data an op owns: its output slot and its operands
DataWords(op) ==
    IF op \in {"Input", "CopyImm", "CopyReg"} \cup UnaryRegOps THEN 2 ELSE 3

----------------------------------------------------------------------------
(* SsaTapeEval: the reference evaluator *)

Min2(a, b) == IF a <= b THEN a ELSE b
Max2(a, b) == IF a >= b THEN a ELSE b
AbsVal(a) == IF a < 0 THEN -a ELSE a

\* self.v(i) on the workspace slots
v(slots, i) == At(slots, i)

\* The value one op computes; w[k] is the k-th word next() returns for it
EvalOp(op, w, slots, pt) ==
    CASE op = "Input" -> pt[w[1] + 1]
      [] op = "NegReg" -> -v(slots, w[1])
      [] op = "AbsReg" -> AbsVal(v(slots, w[1]))
      [] op = "SquareReg" -> v(slots, w[1]) * v(slots, w[1])
      [] op = "CopyReg" -> v(slots, w[1])
      [] op = "AddRegReg" -> v(slots, w[2]) + v(slots, w[1])
      [] op = "MulRegReg" -> v(slots, w[2]) * v(slots, w[1])
      [] op = "SubRegReg" -> v(slots, w[2]) - v(slots, w[1])
      [] op = "MinRegReg" -> Min2(v(slots, w[2]), v(slots, w[1]))
      [] op = "MaxRegReg" -> Max2(v(slots, w[2]), v(slots, w[1]))
      [] op = "AddRegImm" -> v(slots, w[2]) + from_bits(w[1])
      [] op = "MulRegImm" -> v(slots, w[2]) * from_bits(w[1])
      [] op = "SubImmReg" -> from_bits(w[1]) - v(slots, w[2])
      [] op = "SubRegImm" -> v(slots, w[2]) - from_bits(w[1])
      [] op = "MinRegImm" -> Min2(v(slots, w[2]), from_bits(w[1]))
      [] op = "MaxRegImm" -> Max2(v(slots, w[2]), from_bits(w[1]))
      [] op = "CopyImm" -> from_bits(w[1])

\* The slots an op reads through self.v
EvalReads(op, w) ==
    CASE op \in UnaryRegOps \cup {"CopyReg"} -> {w[1]}
      [] op \in RegRegOps \cup ChoiceRegRegOps -> {w[1], w[2]}
      [] op \in RegImmOps \cup ChoiceRegImmOps -> {w[2]}
      [] OTHER -> {}

\* The loop of f from op k (1-based, walking down to 1) with p the index of
\* the word the next call of next() returns; e is [slots, panic]
RECURSIVE EvalLoop(_, _, _, _, _)
EvalLoop(t, k, p, e, pt) ==
    IF k = 0 \/ e.panic THEN e
    ELSE LET op == t.tape[k]
             n == DataWords(op)
             w == [j \in 1..n |-> t.data[p + 1 - j]]
             out == w[n]
             bad == \/ p < n
                    \/ \E i \in EvalReads(op, w) \cup {out} : i >= Len(e.slots)
                    \/ op = "Input" /\ w[1] \notin {0, 1, 2}
         IN IF bad THEN [e EXCEPT !.panic = TRUE]
            ELSE EvalLoop(t, k - 1, p - n,
                          [e EXCEPT !.slots = Put(@, out, EvalOp(op, w, e.slots, pt))],
                          pt)

\* SsaTapeEval::f on the workspace `slots`: the workspace it leaves, the
\* value it returns, and whether it panicked
f(t, slots, pt) ==
    LET e == EvalLoop(t, Len(t.tape), Len(t.data), [slots |-> slots, panic |-> FALSE], pt)
        bad == e.panic \/ Len(t.data) = 0 \/ t.data[1] >= Len(e.slots)
    IN [slots |-> e.slots, panic |-> bad,
        value |-> IF bad THEN 0 ELSE At(e.slots, t.data[1])]

\* SsaTape::get_evaluator followed by one call of f
Eval(t, pt) == f(t, Fill(0, Len(t.tape)), pt)

----------------------------------------------------------------------------
(* The value of a Scheduled, node by node *)

AxisOf(name) ==
    CASE name = "X" -> 1
      [] name = "Y" -> 2
      [] name = "Z" -> 3

RECURSIVE NodeValue(_, _, _)
NodeValue(t, i, pt) ==
    LET op == t[i]
        l == NodeValue(t, op.a, pt)
        r == NodeValue(t, op.b, pt)
    IN CASE op.kind = "Var" -> pt[AxisOf(op.op)]
         [] op.kind = "Const" -> op.a
         [] op.kind = "Unary" ->
              (CASE op.op = "Neg" -> -l
                 [] op.op = "Abs" -> AbsVal(l)
                 [] op.op = "Square" -> l * l)
         [] op.kind = "Binary" ->
              (CASE op.op = "Add" -> l + r
                 [] op.op = "Mul" -> l * r
                 [] op.op = "Sub" -> l - r)
         [] op.kind = "BinaryChoice" ->
              (CASE op.op = "Min" -> Min2(l, r)
                 [] op.op = "Max" -> Max2(l, r))

----------------------------------------------------------------------------
(* SsaTapeAllocator.  An AsmOp is a record [op, out, lhs, rhs]:            *)
(*   Input(out, i)          lhs = i          CopyImm(out, imm)   lhs = imm *)
(*   unary op(out, arg)     lhs = arg        op(out, lhs, rhs)             *)
(*   op(out, arg, imm)      lhs = arg, rhs = imm                           *)
(*   Load(reg, mem) and Store(reg, mem)      out = reg, lhs = mem          *)
(* The field panic of the allocator record names the assert or index that  *)
(* failed, "" when none did; once set, the record no longer changes.       *)

AsmOp(op, out, lhs, rhs) == [op |-> op, out |-> out, lhs |-> lhs, rhs |-> rhs]

\* SsaTapeAllocator::new
AllocatorNew(reg_limit) ==
    [allocations |-> <<>>,
     registers |-> Fill(U32_MAX, reg_limit),
     register_lru |-> Fill(0, reg_limit),
     time |-> 0,
     reg_limit |-> reg_limit,
     spare_registers |-> <<>>,
     spare_memory |-> <<>>,
     total_slots |-> 0,
     out |-> <<>>,
     panic |-> ""]

\* SsaTapeAllocator::get_memory: the allocator after the call and the slot
get_memory(a) ==
    IF Len(a.spare_memory) > 0
    THEN [a |-> [a EXCEPT !.spare_memory = Front(@)], mem |-> Last(a.spare_memory)]
    ELSE [a |-> [a EXCEPT !.total_slots = @ + 1], mem |-> a.total_slots]

\* SsaTapeAllocator::oldest_reg: min_by_key returns the first of the
\* registers whose last access time is least
oldest_reg(a) ==
    CHOOSE r \in 0..(Len(a.register_lru) - 1) :
        /\ \A q \in 0..(Len(a.register_lru) - 1) :
              At(a.register_lru, r) <= At(a.register_lru, q)
        /\ \A q \in 0..(r - 1) : At(a.register_lru, q) > At(a.register_lru, r)

\* The resize of SsaTapeAllocator::get_allocation
get_allocation_resize(a, n) ==
    IF n >= Len(a.allocations)
    THEN [a EXCEPT !.allocations = @ \o Fill(U32_MAX, n + 1 - Len(@))]
    ELSE a

\* The value SsaTapeAllocator::get_allocation returns
get_allocation(a, n) == At(get_allocation_resize(a, n).allocations, n)

\* get_register, lines 572-580: a spare register, else a new one, else None
pick_register(a) ==
    IF Len(a.spare_registers) > 0
    THEN [a |-> [a EXCEPT !.spare_registers = Front(@)],
          reg |-> Last(a.spare_registers)]
    ELSE IF a.total_slots < a.reg_limit
         THEN [a |-> [a EXCEPT !.total_slots = @ + 1], reg |-> a.total_slots]
         ELSE [a |-> a, reg |-> None]

\* get_register, lines 595-601: register reg's node moves to the memory
\* slot m.mem that get_memory returned with the allocator m.a
evict_to(reg, prev_node, m) ==
    IF prev_node >= Len(m.a.allocations)
    THEN [a |-> [m.a EXCEPT !.panic = "get_register: allocations[prev_node]"],
          reg |-> reg]
    ELSE [a |-> [m.a EXCEPT !.allocations = Put(@, prev_node, m.mem),
                            !.out = Append(@, AsmOp("Load", reg, m.mem, 0))],
          reg |-> reg]

\* get_register, lines 586-602: move the oldest register's node to memory
evict(a) == evict_to(oldest_reg(a), At(a.registers, oldest_reg(a)), get_memory(a))

\* get_register, lines 581-602: p is what pick_register returned
claim_register(p) ==
    IF p.reg # None
    THEN IF At(p.a.registers, p.reg) = U32_MAX
         THEN p
         ELSE [a |-> [p.a EXCEPT !.panic = "get_register: assert register free"],
               reg |-> p.reg]
    ELSE evict(p.a)

\* get_register, lines 603-608: give back the memory slot the node held
free_memory(a, reg, slot) ==
    IF slot # U32_MAX
    THEN [a EXCEPT !.spare_memory = Append(@, slot),
                   !.out = Append(@, AsmOp("Store", reg, slot, 0))]
    ELSE a

\* get_register, lines 613-618: bind the register and update its use time
bind(a, reg, n) ==
    [a EXCEPT !.registers = Put(@, reg, n),
              !.allocations = Put(@, n, reg),
              !.register_lru = Put(@, reg, a.time),
              !.time = @ + 1]

\* get_register, lines 603-618, with got the register claimed for node n
rebind(got, slot, n) ==
    IF got.a.panic # "" THEN got
    ELSE [a |-> bind(free_memory(got.a, got.reg, slot), got.reg, n),
          reg |-> got.reg]

\* get_register after the resize of get_allocation
get_register_at(a, n) ==
    IF At(a.allocations, n) >= a.reg_limit
    THEN rebind(claim_register(pick_register(a)), At(a.allocations, n), n)
    ELSE [a |-> bind(a, At(a.allocations, n), n), reg |-> At(a.allocations, n)]

\* SsaTapeAllocator::get_register: the allocator after the call and the
\* register
get_register(a, n) ==
    IF a.panic # "" THEN [a |-> a, reg |-> 0]
    ELSE get_register_at(get_allocation_resize(a, n), n)

\* SsaTapeAllocator::release
release(a, reg) ==
    IF a.panic # "" THEN a
    ELSE [a EXCEPT !.registers = Put(@, reg, U32_MAX),
                   !.spare_registers = Append(@, reg),
                   !.allocations = Put(@, At(a.registers, reg), U32_MAX)]

\* get_register(out) followed by release(out): g is what get_register
\* returned
released(g) == [a |-> release(g.a, g.reg), reg |-> g.reg]

\* The head of every allocator op: the assert, get_register(out), release
produce(a, out) ==
    IF get_allocation(a, out) = U32_MAX
    THEN [a |-> [get_allocation_resize(a, out) EXCEPT
                    !.panic = "assert get_allocation(out) != u32::MAX"],
          reg |-> 0]
    ELSE released(get_register(a, out))

\* Vec::push onto out, unless the op has panicked before
push_out(a, asm) == IF a.panic # "" THEN a ELSE [a EXCEPT !.out = Append(@, asm)]

\* op_reg, lines 643-651, with out the output's register and g what
\* get_register(arg) returned: the match has no arm for CopyReg
op_reg_push(out, g, op) ==
    IF g.a.panic # "" THEN g.a
    ELSE IF op \in UnaryRegOps
         THEN push_out(g.a, AsmOp(op, out, g.reg, 0))
         ELSE [g.a EXCEPT !.panic = "op_reg: no AsmOp for this opcode"]

\* op_reg after the output was produced as o
op_reg_arg(o, arg, op) == op_reg_push(o.reg, get_register(o.a, arg), op)

\* SsaTapeAllocator::op_reg
op_reg(a, out, arg, op) == op_reg_arg(produce(a, out), arg, op)

\* op_reg_reg, lines 662-670, with l and r what get_register returned
op_reg_reg_push(out, l, r, op) ==
    IF r.a.panic # "" THEN r.a
    ELSE IF op \in RegRegOps \cup ChoiceRegRegOps
         THEN push_out(r.a, AsmOp(op, out, l.reg, r.reg))
         ELSE [r.a EXCEPT !.panic = "op_reg_reg: no AsmOp for this opcode"]

\* op_reg_reg after get_register(lhs) returned l
op_reg_reg_rhs(out, l, rhs, op) ==
    op_reg_reg_push(out, l, get_register(l.a, rhs), op)

\* op_reg_reg after the output was produced as o
op_reg_reg_lhs(o, lhs, rhs, op) ==
    op_reg_reg_rhs(o.reg, get_register(o.a, lhs), rhs, op)

\* SsaTapeAllocator::op_reg_reg
op_reg_reg(a, out, lhs, rhs, op) ==
    op_reg_reg_lhs(produce(a, out), lhs, rhs, op)

\* op_reg_imm, lines 680-689, with g what get_register(arg) returned
op_reg_imm_push(out, g, imm, op) ==
    IF g.a.panic # "" THEN g.a
    ELSE IF op \in RegImmOps \cup ChoiceRegImmOps
         THEN push_out(g.a, AsmOp(op, out, g.reg, imm))
         ELSE [g.a EXCEPT !.panic = "op_reg_imm: no AsmOp for this opcode"]

\* op_reg_imm after the output was produced as o
op_reg_imm_arg(o, arg, imm, op) ==
    op_reg_imm_push(o.reg, get_register(o.a, arg), imm, op)

\* SsaTapeAllocator::op_reg_imm
op_reg_imm(a, out, arg, imm, op) ==
    op_reg_imm_arg(produce(a, out), arg, imm, op)

\* op_copy_imm after the output was produced as o
op_copy_imm_push(o, imm) == push_out(o.a, AsmOp("CopyImm", o.reg, imm, 0))

\* SsaTapeAllocator::op_copy_imm
op_copy_imm(a, out, imm) == op_copy_imm_push(produce(a, out), imm)

\* op_input after the output was produced as o
op_input_push(o, i) == push_out(o.a, AsmOp("Input", o.reg, i, 0))

\* SsaTapeAllocator::op_input
op_input(a, out, i) == op_input_push(produce(a, out), i)

----------------------------------------------------------------------------
(* SsaTape::simplify.  Its locals are the record                            *)
(*   [active, count, choice_count, ipos, dpos, cpos, ops_out, data_out,    *)
(*    alloc, panic]                                                         *)
(* where ipos, dpos and cpos count the items the iterators over self.tape, *)
(* self.data and choices.iter().rev() have yielded, count is the next      *)
(* value of the range 0.., and panic names the place that panicked.        *)

\* simplify, lines 237-251: the state before the loop
simplify_begin(self, reg_limit) ==
    LET n == Len(self.tape)
        st == [active |-> Fill(None, n), count |-> 0, choice_count |-> 0,
               ipos |-> 0, dpos |-> 0, cpos |-> 0,
               ops_out |-> <<>>, data_out |-> <<>>,
               alloc |-> AllocatorNew(reg_limit), panic |-> ""]
    IN IF Len(self.data) = 0 THEN [st EXCEPT !.panic = "self.data[0]"]
       ELSE IF self.data[1] >= n THEN [st EXCEPT !.panic = "active[self.data[0]]"]
       ELSE [st EXCEPT !.active = Put(@, self.data[1], 0), !.count = 1]

\* A walk that gives every operand the root's new slot: what C25 must tell
\* apart from simplify
get_or_insert_root(st, slot) == [st |-> st, v |-> 0]

\* active[slot].get_or_insert_with(|| count.next().unwrap())
get_or_insert(st, slot) ==
    IF At(st.active, slot) = None
    THEN [st |-> [st EXCEPT !.active = Put(@, slot, st.count), !.count = @ + 1],
          v |-> st.count]
    ELSE [st |-> st, v |-> At(st.active, slot)]

\* The pushes onto data_out and ops_out, then the allocator call's result
emit(st, op, words, alloc) ==
    [st EXCEPT !.data_out = @ \o words,
               !.ops_out = Append(@, op),
               !.alloc = alloc,
               !.panic = alloc.panic]

\* The arms that copy a register or collapse into it: CopyReg, and a
\* min/max resolved to the register operand src
copy_or_collapse(st, new_index, src) ==
    IF At(st.active, src) # None
    THEN emit(st, "CopyReg", <<new_index, At(st.active, src)>>,
              op_reg(st.alloc, new_index, At(st.active, src), "CopyReg"))
    ELSE [st EXCEPT !.active = Put(@, src, new_index)]

\* One iteration of the loop of simplify (lines 253-439) on the op at ipos
simplify_op(self, choices, st) ==
    LET op == self.tape[st.ipos + 1]
        word(k) == self.data[st.dpos + k]
        index == word(1)
        \* the iterators after this iteration
        adv == [st EXCEPT !.ipos = @ + 1,
                          !.dpos = @ + DataWords(op),
                          !.cpos = IF op \in ChoiceOps THEN @ + 1 ELSE @]
        no_choice == op \in ChoiceOps /\ st.cpos >= Len(choices)
        choice == choices[Len(choices) - st.cpos]
        new_index == At(st.active, index)
    IN IF no_choice THEN [adv EXCEPT !.panic = "choice_iter.next().unwrap()"]
       ELSE IF new_index = None THEN adv
       ELSE CASE op = "Input" ->
                   emit(adv, op, <<new_index, word(2)>>,
                        op_input(adv.alloc, new_index, word(2)))
              [] op = "CopyImm" ->
                   emit(adv, op, <<new_index, word(2)>>,
                        op_copy_imm(adv.alloc, new_index, from_bits(word(2))))
              [] op \in UnaryRegOps ->
                   LET g == get_or_insert(adv, word(2))
                   IN emit(g.st, op, <<new_index, g.v>>,
                           op_reg(g.st.alloc, new_index, g.v, op))
              [] op = "CopyReg" -> copy_or_collapse(adv, new_index, word(2))
              [] op \in ChoiceRegImmOps ->
                   (CASE choice = "Left" -> copy_or_collapse(adv, new_index, word(2))
                      [] choice = "Right" ->
                           emit(adv, "CopyImm", <<new_index, word(3)>>,
                                op_copy_imm(adv.alloc, new_index, from_bits(word(3))))
                      [] choice = "Both" ->
                           LET c == [adv EXCEPT !.choice_count = @ + 1]
                               g == get_or_insert(c, word(2))
                           IN emit(g.st, op, <<new_index, g.v, word(3)>>,
                                   op_reg_imm(g.st.alloc, new_index, g.v,
                                              from_bits(word(3)), op))
                      [] choice = "Unknown" -> [adv EXCEPT !.panic = "oh no"])
              [] op \in ChoiceRegRegOps ->
                   (CASE choice = "Left" -> copy_or_collapse(adv, new_index, word(2))
                      [] choice = "Right" -> copy_or_collapse(adv, new_index, word(3))
                      [] choice = "Both" ->
                           LET c == [adv EXCEPT !.choice_count = @ + 1]
                               l == get_or_insert(c, word(2))
                               r == get_or_insert(l.st, word(3))
                           IN emit(r.st, op, <<new_index, l.v, r.v>>,
                                   op_reg_reg(r.st.alloc, new_index, l.v, r.v, op))
                      [] choice = "Unknown" -> [adv EXCEPT !.panic = "oh no"])
              [] op \in RegRegOps ->
                   LET l == get_or_insert(adv, word(2))
                       r == get_or_insert(l.st, word(3))
                   IN emit(r.st, op, <<new_index, l.v, r.v>>,
                           op_reg_reg(r.st.alloc, new_index, l.v, r.v, op))
              [] op \in RegImmOps ->
                   LET g == get_or_insert(adv, word(2))
                   IN emit(g.st, op, <<new_index, g.v, word(3)>>,
                           op_reg_imm(g.st.alloc, new_index, g.v,
                                      from_bits(word(3)), op))

\* simplify, lines 441-442: the two final asserts
simplify_end(st) ==
    IF st.count # Len(st.ops_out)
    THEN [st EXCEPT !.panic = "assert_eq!(count.next(), ops_out.len())"]
    ELSE IF Len(st.ops_out) # Len(st.alloc.out)
    THEN [st EXCEPT !.panic = "assert_eq!(ops_out.len(), alloc.out.len())"]
    ELSE st

\* simplify, lines 444-451: the pair it returns
simplify_result(st) ==
    [ssa |-> [tape |-> st.ops_out, data |-> st.data_out,
              choice_count |-> st.choice_count],
     asm |-> st.alloc.out]

\* An SsaTape::new that counts every op as a choice: what C23 must tell
\* apart from SsaTape::new
SsaTapeNewCountOps(bs) ==
    [tape |-> Reverse(bs.tape), data |-> Reverse(bs.data),
     choice_count |-> Len(bs.tape)]

\* SsaTape::new after builder.run(): both vectors reversed
SsaTapeNew(bs) ==
    [tape |-> Reverse(bs.tape), data |-> Reverse(bs.data),
     choice_count |-> bs.choice_count]

\* The loop of simplify from the locals s to its end or to the first panic
RECURSIVE simplify_loop(_, _, _)
simplify_loop(self, choices, s) ==
    IF s.panic # "" THEN s
    ELSE IF s.ipos = Len(self.tape) THEN simplify_end(s)
    ELSE simplify_loop(self, choices, simplify_op(self, choices, s))

\* SsaTape::simplify as a whole: its locals when it returns or panics
simplify(self, choices, reg_limit) ==
    simplify_loop(self, choices, simplify_begin(self, reg_limit))

----------------------------------------------------------------------------
(* Execution of an asm tape: the instructions run in the reverse of the    *)
(* order they were pushed; Load(reg, mem) copies memory slot mem into reg  *)
(* and Store(reg, mem) copies reg into memory slot mem.  The machine is    *)
(* [regs, mem], both indexed from 0.                                       *)

SpillOps == {"Load", "Store"}

\* The registers an instruction reads
AsmReads(ins) ==
    CASE ins.op \in {"Input", "CopyImm", "Load"} -> {}
      [] ins.op = "Store" -> {ins.out}
      [] ins.op \in RegRegOps \cup ChoiceRegRegOps -> {ins.lhs, ins.rhs}
      [] OTHER -> {ins.lhs}

\* The registers an instruction writes
AsmWrites(ins) == IF ins.op = "Store" THEN {} ELSE {ins.out}

\* Every register index an instruction names
AsmRegs(ins) == AsmReads(ins) \cup {ins.out}

AsmExecOp(m, ins, pt) ==
    LET r(i) == At(m.regs, i)
        set(x) == [m EXCEPT !.regs = Put(@, ins.out, x)]
    IN CASE ins.op = "Load" -> set(At(m.mem, ins.lhs))
         [] ins.op = "Store" -> [m EXCEPT !.mem = Put(@, ins.lhs, r(ins.out))]
         [] ins.op = "Input" -> set(pt[ins.lhs + 1])
         [] ins.op = "CopyImm" -> set(ins.lhs)
         [] ins.op = "NegReg" -> set(-r(ins.lhs))
         [] ins.op = "AbsReg" -> set(AbsVal(r(ins.lhs)))
         [] ins.op = "SquareReg" -> set(r(ins.lhs) * r(ins.lhs))
         [] ins.op = "CopyReg" -> set(r(ins.lhs))
         [] ins.op = "AddRegReg" -> set(r(ins.lhs) + r(ins.rhs))
         [] ins.op = "MulRegReg" -> set(r(ins.lhs) * r(ins.rhs))
         [] ins.op = "SubRegReg" -> set(r(ins.lhs) - r(ins.rhs))
         [] ins.op = "MinRegReg" -> set(Min2(r(ins.lhs), r(ins.rhs)))
         [] ins.op = "MaxRegReg" -> set(Max2(r(ins.lhs), r(ins.rhs)))
         [] ins.op = "AddRegImm" -> set(r(ins.lhs) + ins.rhs)
         [] ins.op = "MulRegImm" -> set(r(ins.lhs) * ins.rhs)
         [] ins.op = "SubRegImm" -> set(r(ins.lhs) - ins.rhs)
         [] ins.op = "SubImmReg" -> set(ins.rhs - r(ins.lhs))
         [] ins.op = "MinRegImm" -> set(Min2(r(ins.lhs), ins.rhs))
         [] ins.op = "MaxRegImm" -> set(Max2(r(ins.lhs), ins.rhs))

\* The machine after instructions k, k-1, .., 1 of asm
RECURSIVE AsmExecFrom(_, _, _, _)
AsmExecFrom(asm, k, m, pt) ==
    IF k = 0 THEN m ELSE AsmExecFrom(asm, k - 1, AsmExecOp(m, asm[k], pt), pt)

\* The value the asm tape leaves in the register of the root's op, which is
\* the first op pushed
AsmValue(asm, reg_limit, pt) ==
    LET m0 == [regs |-> Fill(0, reg_limit), mem |-> Fill(0, reg_limit + Len(asm) + 1)]
        root == CHOOSE i \in 1..Len(asm) :
                    /\ asm[i].op \notin SpillOps
                    /\ \A j \in 1..(i - 1) : asm[j].op \in SpillOps
    IN At(AsmExecFrom(asm, Len(asm), m0, pt).regs, asm[root].out)

----------------------------------------------------------------------------
(* Tape *)

\* vec![Choice::Both; ssa.choice_count] of Tape::new_with_reg_limit
dummy(t) == Fill("Both", t.choice_count)

\* The struct Tape that new_with_reg_limit and simplify build from the
\* pair SsaTape::simplify returns
TapeOf(st, reg_limit) ==
    [ssa |-> simplify_result(st).ssa, asm |-> simplify_result(st).asm,
     reg_limit |-> reg_limit]

\* The choice slices a caller passes to a tape with n choice ops: of the
\* right length, one short and one long
ChoiceSlices(n) ==
    UNION {[1..k -> Choice] : k \in {m \in (n - 1)..(n + 1) : m >= 0}}

\* The callers of SsaTape::simplify
Callers == {"Tape::new_with_reg_limit", "SsaTape::simplify", "Tape::simplify"}

----------------------------------------------------------------------------
(* The state machine *)

VARIABLES
    sched,      \* the Scheduled the builder was given (its tape)
    pc,         \* "build": SsaTapeBuilder::run is at node builder.iter
                \* "ssa": SsaTape::new has returned ssa
                \* "simplify": the loop of SsaTape::simplify is at op st.ipos
                \* "tape": simplify has returned; tape holds what it returned
                \* "panic": the program has panicked at `panic`
    builder,    \* the SsaTapeBuilder
    ssa,        \* the SsaTape that SsaTape::new returned
    caller,     \* who called the running (or last) SsaTape::simplify
    receiver,   \* the SsaTape that call is simplifying (its &self)
    choices,    \* the choice slice of that call
    reg_limit,  \* the register limit of that call
    st,         \* the locals of that call
    tape,       \* the Tape (ssa, asm, reg_limit) the last call returned
    panic,      \* the place that panicked, "" while nothing has
    ctx,        \* the arguments of schedule: the Context's ops and the root
    sd,         \* the locals of schedule and the loop it is in
    point       \* the PointEval and the history of the calls made on it

vars == <<sched, pc, builder, ssa, caller, receiver, choices, reg_limit, st,
          tape, panic, ctx, sd, point>>

\* The variables of schedule and of PointEval, which the tape machine leaves
\* alone, and the variables of the tape machine
others == <<ctx, sd, point>>
machine == <<sched, pc, builder, ssa, caller, receiver, choices, reg_limit,
             st, tape, panic>>

NoTape == [tape |-> <<>>, data |-> <<>>, choice_count |-> 0]
NoLocals == [simplify_begin(NoTape, 1) EXCEPT !.panic = ""]

\* schedule has not been called; no PointEval has been made
NoCtx == [ops |-> <<>>, root |-> 0]
NoSchedule ==
    [loop |-> "", todo |-> <<>>, seen |-> {}, nodes |-> <<>>,
     parents |-> <<>>, scheduled |-> {}, out |-> <<>>, root |-> 0]
NoPoint ==
    [made |-> FALSE, tape |-> [choice_count |-> 0], choices |-> <<>>,
     evals |-> 0, written |-> <<>>, last |-> "", passed |-> <<>>]

Init ==
    /\ sched \in Scheduleds(MaxNodes)
    /\ pc = "build"
    /\ builder = BuilderNew
    /\ ssa = NoTape
    /\ caller = ""
    /\ receiver = NoTape
    /\ choices = <<>>
    /\ reg_limit = 0
    /\ st = NoLocals
    /\ tape = [ssa |-> NoTape, asm |-> <<>>, reg_limit |-> 0]
    /\ panic = ""
    /\ ctx = NoCtx
    /\ sd = NoSchedule
    /\ point = NoPoint

\* One iteration of SsaTapeBuilder::run: step on the next node of the list
BuilderStep ==
    /\ pc = "build"
    /\ builder.iter < Len(sched)
    /\ LET b == step(builder, builder.iter + 1, sched[builder.iter + 1])
       IN /\ builder' = [b EXCEPT !.iter = @ + 1]
          /\ pc' = IF b.panic # "" THEN "panic" ELSE "build"
          /\ panic' = b.panic
    /\ UNCHANGED <<sched, ssa, caller, receiver, choices, reg_limit, st, tape>>
    /\ UNCHANGED others

\* The end of SsaTape::new: the list is exhausted, the tape is reversed
BuilderDone ==
    /\ pc = "build"
    /\ builder.iter = Len(sched)
    /\ ssa' = SsaTapeNew(builder)
    /\ pc' = "ssa"
    /\ UNCHANGED <<sched, builder, caller, receiver, choices, reg_limit, st,
                   tape, panic>>
    /\ UNCHANGED others

\* A call of SsaTape::simplify up to its loop: by Tape::new_with_reg_limit
\* (right after SsaTape::new, with the dummy choices) or directly on the
\* SsaTape that SsaTape::new returned, or by Tape::simplify on a Tape
SimplifyCall ==
    /\ pc \in {"ssa", "tape"}
    /\ \E c \in Callers, r \in 1..MaxRegLimit :
          LET self == IF pc = "ssa" THEN ssa ELSE tape.ssa IN
          \E ch \in ChoiceSlices(self.choice_count) :
             /\ IF pc = "ssa"
                THEN /\ c \in {"Tape::new_with_reg_limit", "SsaTape::simplify"}
                     /\ c = "Tape::new_with_reg_limit" => ch = dummy(self)
                ELSE /\ c \in {"Tape::simplify", "SsaTape::simplify"}
                     /\ c = "Tape::simplify" => r = tape.reg_limit
             /\ caller' = c
             /\ receiver' = self
             /\ choices' = ch
             /\ reg_limit' = r
             /\ st' = simplify_begin(self, r)
             /\ panic' = st'.panic
             /\ pc' = IF st'.panic # "" THEN "panic" ELSE "simplify"
    /\ UNCHANGED <<sched, builder, ssa, tape>>
    /\ UNCHANGED others

\* The end of an iteration: after the last op, the final asserts
after_op(s1, n) ==
    IF s1.panic = "" /\ s1.ipos = n THEN simplify_end(s1) ELSE s1

\* Where the call of simplify stands with the locals s2 on a tape of n ops
pc_after(s2, n) ==
    IF s2.panic # "" THEN "panic"
    ELSE IF s2.ipos = n THEN "tape"
    ELSE "simplify"

\* One iteration of the loop of SsaTape::simplify; after the last op, the
\* final asserts and the return to the caller, which builds its Tape
SimplifyStep ==
    /\ pc = "simplify"
    /\ st' = after_op(simplify_op(receiver, choices, st), Len(receiver.tape))
    /\ panic' = st'.panic
    /\ pc' = pc_after(st', Len(receiver.tape))
    /\ tape' = IF pc' = "tape" THEN TapeOf(st', reg_limit) ELSE tape
    /\ UNCHANGED <<sched, builder, ssa, caller, receiver, choices, reg_limit>>
    /\ UNCHANGED others

Next == BuilderStep \/ BuilderDone \/ SimplifyCall \/ SimplifyStep

Spec == Init /\ [][Next]_vars

----------------------------------------------------------------------------
(* Vocabulary of the properties *)

\* The samples (x, y, z)
Samples == (0..MaxCoord) \X (0..MaxCoord) \X (0..MaxCoord)

\* The panics of the builder: the encoding faults of a Scheduled
EncodingFaults ==
    {"unknown variable", "Cannot handle f(imm)", "Cannot handle f(imm, imm)"}

\* A call of SsaTape::simplify has been made and has ended, by returning to
\* its caller or by panicking
Ended == caller # "" /\ pc \in {"tape", "panic"}

\* The call that ended was given a tape with at least one op
EndedOnOps == Ended /\ Len(receiver.tape) > 0

\* The call has returned; tape is what its caller made of the result
Returned == caller # "" /\ pc = "tape"

\* The choice slice of the call has one entry per choice op of the receiver
\* and no entry is Unknown
WellFormedChoices ==
    /\ Len(choices) = receiver.choice_count
    /\ \A k \in 1..Len(choices) : choices[k] \in {"Left", "Right", "Both"}

\* The index into t.data of the output slot of op i of t.tape
RECURSIVE Offset(_, _)
Offset(t, i) == IF i = 1 THEN 1 ELSE Offset(t, i - 1) + DataWords(t.tape[i - 1])

\* The positions in t.tape of its choice ops, in execution order
ChoicePositions(t) ==
    SelectSeq(Reverse([i \in 1..Len(t.tape) |-> i]),
              LAMBDA i : t.tape[i] \in ChoiceOps)

\* The slice c is consistent with evaluating t at pt: an entry is Left only
\* if the lhs (register) operand equals the result of its min/max there,
\* Right only if the rhs (immediate) operand does
Consistent(t, c, pt) ==
    LET e == Eval(t, pt)
        pos == ChoicePositions(t)
        res(i) == At(e.slots, t.data[Offset(t, i)])
        lhs(i) == At(e.slots, t.data[Offset(t, i) + 1])
        rhs(i) == IF t.tape[i] \in ChoiceRegRegOps
                  THEN At(e.slots, t.data[Offset(t, i) + 2])
                  ELSE from_bits(t.data[Offset(t, i) + 2])
    IN /\ ~e.panic
       /\ Len(c) = Len(pos)
       /\ \A k \in 1..Len(c) :
             \/ c[k] = "Both"
             \/ c[k] = "Left" /\ lhs(pos[k]) = res(pos[k])
             \/ c[k] = "Right" /\ rhs(pos[k]) = res(pos[k])

\* The ops of an asm tape that are no Load or Store, in the order pushed
AsmOpsOnly(asm) == SelectSeq(asm, LAMBDA ins : ins.op \notin SpillOps)

\* The op names of a sequence of AsmOps
AsmOpNames(asm) == [i \in 1..Len(asm) |-> asm[i].op]

----------------------------------------------------------------------------
(* The claims.  C1-C6 and C8 are stated for tapes with at least one op:   *)
(* the tape of a Scheduled whose only node is a constant has none, and     *)
(* C10 covers it.                                                          *)

\* C1: for every SSA tape t, sample p and choice slice c consistent with
\* evaluating t at p, t.simplify(c) returns an SSA tape whose value at p
\* equals the value of t at p.
C1_SimplifyKeepsValue ==
    \A pt \in Samples :
        (EndedOnOps /\ Consistent(receiver, choices, pt)) =>
            /\ Returned
            /\ ~Eval(tape.ssa, pt).panic
            /\ Eval(tape.ssa, pt).value = Eval(receiver, pt).value

\* C2: for every Scheduled without encoding faults and every sample, the
\* SSA tape of the Tape that Tape::new builds evaluates to the value of the
\* scheduled DAG computed node by node.
C2_TapeNewMatchesScheduled ==
    (EndedOnOps /\ caller = "Tape::new_with_reg_limit") =>
        /\ Returned
        /\ \A pt \in Samples :
              /\ ~Eval(tape.ssa, pt).panic
              /\ Eval(tape.ssa, pt).value = NodeValue(sched, Len(sched), pt)

C4_OneRegisterAsmCorrect ==
    (EndedOnOps /\ WellFormedChoices /\ reg_limit = 1) =>
        /\ Returned
        /\ \A pt \in Samples :
              AsmValue(tape.asm, 1, pt) = Eval(tape.ssa, pt).value

C7_OutputAllocated ==
    panic # "assert get_allocation(out) != u32::MAX"

C9_EveryOpHasItsAsmOp ==
    (caller # "" /\ WellFormedChoices) =>
        AsmOpNames(AsmOpsOnly(st.alloc.out)) = st.ops_out

\* C10: for every Scheduled without encoding faults (also one whose only
\* node is a constant), every reg_limit >= 1 and every well-formed choice
\* slice, Tape::new_with_reg_limit and Tape::simplify return a Tape: the
\* only panics are encoding faults and ill-formed choice slices.
C10_Total ==
    pc = "panic" =>
        \/ panic \in EncodingFaults
        \/ caller # "" /\ ~WellFormedChoices

----------------------------------------------------------------------------
(* Vocabulary of the claims about the shape of an SSA tape *)

\* The number of min/max ops in a sequence of ops
CountChoiceOps(ops) == Len(SelectSeq(ops, LAMBDA o : o \in ChoiceOps))

\* The output slot of op i of t.tape (root-first position i)
OutSlot(t, i) == t.data[Offset(t, i)]

\* The register operand slots of op i of t.tape, as <<lhs, rhs>> positions:
\* the words after the output slot that name slots
OperandSlots(t, i) ==
    CASE t.tape[i] \in UnaryRegOps \cup {"CopyReg"} \cup RegImmOps \cup ChoiceRegImmOps ->
            {t.data[Offset(t, i) + 1]}
      [] t.tape[i] \in RegRegOps \cup ChoiceRegRegOps ->
            {t.data[Offset(t, i) + 1], t.data[Offset(t, i) + 2]}
      [] OTHER -> {}

\* Every slot word of t names a slot below the number of ops
SlotsBelowLen(t) ==
    \A i \in 1..Len(t.tape) :
        \A s \in OperandSlots(t, i) \cup {OutSlot(t, i)} : s < Len(t.tape)

\* Single assignment: every register operand of the op at position i is the
\* output of exactly one op at a position after i, and no two ops share an
\* output slot
SingleAssignment(t) ==
    /\ \A i \in 1..Len(t.tape) :
          \A s \in OperandSlots(t, i) :
             Cardinality({j \in (i + 1)..Len(t.tape) : OutSlot(t, j) = s}) = 1
    /\ \A i, j \in 1..Len(t.tape) : OutSlot(t, i) = OutSlot(t, j) => i = j

\* The first data word of t, the output slot of its root op, is 0
RootSlotZero(t) == Len(t.data) > 0 => t.data[1] = 0

\* The entry of the slice c paired with the min/max op at position i of t:
\* the j-th min/max op from the root takes the j-th entry from the end
ChoiceOf(t, c, i) == c[Len(c) + 1 - CountChoiceOps(SubSeq(t.tape, 1, i))]

\* The operands of op i of t that survive the choice made for it
Surviving(t, c, i) ==
    IF t.tape[i] \notin ChoiceOps \/ ChoiceOf(t, c, i) = "Both"
    THEN OperandSlots(t, i)
    ELSE IF ChoiceOf(t, c, i) = "Left" THEN {t.data[Offset(t, i) + 1]}
    ELSE IF t.tape[i] \in ChoiceRegRegOps THEN {t.data[Offset(t, i) + 2]}
    ELSE {}

\* The slots reachable from the slots in `live` through the surviving
\* operands of the ops at positions i.. of t
RECURSIVE LiveSlots(_, _, _, _)
LiveSlots(t, c, i, live) ==
    IF i > Len(t.tape) THEN live
    ELSE LiveSlots(t, c, i + 1,
                   IF OutSlot(t, i) \in live
                   THEN live \cup Surviving(t, c, i) ELSE live)

\* The positions of the ops of t whose output slot is reachable from the
\* root under the slice c
LiveOps(t, c) ==
    {i \in 1..Len(t.tape) : OutSlot(t, i) \in LiveSlots(t, c, 1, {t.data[1]})}

\* The entries of the slice of the call that the walk has taken so far
Consumed ==
    {k \in 1..Len(choices) : k > Len(choices) - st.cpos}

----------------------------------------------------------------------------
(* The claims about the simplified SSA tape *)

C12_RootSlotIsZero ==
    /\ RootSlotZero(ssa)
    /\ (EndedOnOps /\ WellFormedChoices) =>
          /\ Returned
          /\ RootSlotZero(tape.ssa)

----------------------------------------------------------------------------
(* The builder's contract (C21, C23) *)

\* Node i of the Scheduled t is an encoding fault: a Var whose name is not
\* X, Y or Z, a Unary of a constant, a Binary or BinaryChoice of two constants
FaultAt(t, i) ==
    \/ t[i].kind = "Var" /\ t[i].op \notin {"X", "Y", "Z"}
    \/ t[i].kind = "Unary" /\ t[t[i].a].kind = "Const"
    \/ /\ t[i].kind \in {"Binary", "BinaryChoice"}
       /\ t[t[i].a].kind = "Const"
       /\ t[t[i].b].kind = "Const"

\* The nodes among the first n of t that are not constants, and those that
\* are BinaryChoice nodes
NonConstNodes(t, n) == {i \in 1..n : t[i].kind # "Const"}
ChoiceNodes(t, n) == {i \in 1..n : t[i].kind = "BinaryChoice"}

\* C21: the builder panics at a node exactly when the node is an encoding
\* fault, and then SsaTape::new returns no tape; as long as it has not
\* panicked, no node it has stepped over is a fault and it has emitted exactly
\* one op per non-constant node it has stepped over.
C21_BuilderAbortsOnFaults ==
    /\ builder.panic # "" =>
          /\ FaultAt(sched, builder.iter)
          /\ pc = "panic"
          /\ panic \in EncodingFaults
          /\ ssa = NoTape
    /\ builder.panic = "" =>
          /\ \A i \in 1..builder.iter : ~FaultAt(sched, i)
          /\ Len(builder.tape) = Cardinality(NonConstNodes(sched, builder.iter))

\* C21, its case: the builder has panicked on a fault after emitting an op
C21_Witness ==
    /\ builder.panic \in EncodingFaults
    /\ Len(builder.tape) > 0
    /\ pc = "panic"

\* C23: the tape SsaTape::new returns has one op per non-constant node of
\* the Scheduled and none for a Const; the k-th op emitted (position
\* ops.len() - k in the root-first tape) has output slot k, so the output
\* slots are 0..ops.len()-1, each once; choice_count is the number of
\* BinaryChoice nodes and the number of min/max ops of the tape.
C23_DenseSlotsNoConstOps ==
    (pc # "build" /\ builder.panic = "") =>
        LET n == Len(ssa.tape) IN
        /\ n = Cardinality(NonConstNodes(sched, Len(sched)))
        /\ \A i \in 1..n : OutSlot(ssa, i) = n - i
        /\ {OutSlot(ssa, i) : i \in 1..n} = 0..(n - 1)
        /\ ssa.choice_count = Cardinality(ChoiceNodes(sched, Len(sched)))
        /\ ssa.choice_count = CountChoiceOps(ssa.tape)

\* C23, its case: SsaTape::new has returned a tape of two or more ops, one of
\* them a min/max, built from a Scheduled that has a Const node
C23_Witness ==
    /\ pc = "ssa"
    /\ Len(ssa.tape) >= 2
    /\ ssa.choice_count >= 1
    /\ \E i \in 1..Len(sched) : sched[i].kind = "Const"

----------------------------------------------------------------------------
(* schedule(ctx, root): from a Context to a Scheduled.  A Context is a list *)
(* of ops, node i naming its children by their positions below i (so the    *)
(* graph is acyclic); a NodeIndex is the 1-based position of a node in the  *)
(* IndexMap `nodes`, in the order of insertion.                             *)

MaxCtxNodes == 3

\* The ops node i of a Context may carry; the opcode and the name play no
\* part in schedule
CtxNodeOps(i) ==
    {OpVar("X"), OpConst(1)}
    \cup {OpUnary("Neg", l) : l \in 1..(i - 1)}
    \cup {OpBinary("Add", l, r) : l \in 1..(i - 1), r \in 1..(i - 1)}

RECURSIVE CtxLists(_)
CtxLists(n) ==
    IF n = 0 THEN {<<>>}
    ELSE {Append(t, o) : t \in CtxLists(n - 1), o \in CtxNodeOps(n)}

\* The arguments of schedule: a Context, a root in it
Contexts(max) ==
    UNION {{[ops |-> o, root |-> r] : o \in CtxLists(n), r \in 1..n} :
           n \in 1..max}

\* Op::iter_children: the children of an op, lhs then rhs, a repeated child
\* twice.  Yielding rhs first is this walk on the Context with the operands
\* of each Binary swapped, which is a Context too.
iter_children(op) ==
    CASE op.kind \in {"Var", "Const"} -> <<>>
      [] op.kind = "Unary" -> <<op.a>>
      [] OTHER -> <<op.a, op.b>>

\* IndexMap::get_by_value
get_by_value(nodes, node) == CHOOSE k \in 1..Len(nodes) : nodes[k] = node

\* IndexMap::insert: the map after it; the index is get_by_value of the result
insert(nodes, node) ==
    IF \E k \in 1..Len(nodes) : nodes[k] = node THEN nodes ELSE Append(nodes, node)

\* parents.entry(child_index).or_default().insert(index)
add_parent(parents, child_index, index) ==
    IF child_index \in DOMAIN parents
    THEN [parents EXCEPT ![child_index] = @ \cup {index}]
    ELSE (child_index :> {index}) @@ parents

\* A flatten loop that schedules a node the first time it is popped, whatever
\* parents it still has: what C22 must tell apart from schedule
parent_count_zero(parents, index) == 0

\* parents.get(&index).map(|b| b.len()).unwrap_or(0)
parent_count(parents, index) ==
    IF index \in DOMAIN parents THEN Cardinality(parents[index]) ELSE 0

\* The loop over the children in the first while loop (lines 58-64)
RECURSIVE accumulate_children(_, _, _)
accumulate_children(s, index, cs) ==
    IF cs = <<>> THEN s
    ELSE LET nodes1 == insert(s.nodes, Head(cs)) IN
         accumulate_children(
            [s EXCEPT !.nodes = nodes1,
                      !.parents = add_parent(@, get_by_value(nodes1, Head(cs)), index),
                      !.todo = Append(@, Head(cs))],
            index, Tail(cs))

\* One iteration of the first while loop (lines 54-65)
accumulate(s, c) ==
    LET node == Last(s.todo)
        s1 == [s EXCEPT !.todo = Front(@)]
    IN IF node \in s.seen THEN s1
       ELSE LET nodes1 == insert(s1.nodes, node) IN
            accumulate_children(
                [s1 EXCEPT !.seen = @ \cup {node}, !.nodes = nodes1],
                get_by_value(nodes1, node),
                iter_children(c.ops[node]))

\* The loop over the children in the second while loop (lines 77-83); the
\* assert fails when index is no longer recorded as a parent of the child
RECURSIVE flatten_children(_, _, _)
flatten_children(s, index, cs) ==
    IF cs = <<>> \/ s.loop = "panic" THEN s
    ELSE LET child_index == get_by_value(s.nodes, Head(cs)) IN
         flatten_children(
            IF index \in s.parents[child_index]
            THEN [s EXCEPT !.todo = Append(@, child_index),
                           !.parents[child_index] = @ \ {index}]
            ELSE [s EXCEPT !.todo = Append(@, child_index), !.loop = "panic"],
            index, Tail(cs))

\* The match of lines 86-99: the op with its children as NodeIndex
scheduled_op(nodes, op) ==
    CASE op.kind = "Unary" -> OpUnary(op.op, get_by_value(nodes, op.a))
      [] op.kind = "Binary" ->
            OpBinary(op.op, get_by_value(nodes, op.a), get_by_value(nodes, op.b))
      [] OTHER -> op

\* The end of an iteration that schedules a node: out.push((index, op))
push_scheduled(s, index, op) ==
    IF s.loop = "panic" THEN s
    ELSE [s EXCEPT !.out = Append(@, [index |-> index, op |-> op])]

\* One iteration of the second while loop (lines 69-101)
flatten(s, c) ==
    LET index == Last(s.todo)
        s1 == [s EXCEPT !.todo = Front(@)]
    IN IF parent_count(s.parents, index) > 0 \/ index \in s.scheduled THEN s1
       ELSE push_scheduled(
                flatten_children(
                    [s1 EXCEPT !.scheduled = @ \cup {index}], index,
                    iter_children(c.ops[s.nodes[index]])),
                index, scheduled_op(s.nodes, c.ops[s.nodes[index]]))

\* A schedule that returns the list as the loop left it, root first: what
\* C29 must tell apart from schedule
unreversed(out) == out

\* out.reverse() (line 102)
reversed(out) == Reverse(out)

\* The tape machine while schedule runs: not started
Idle ==
    /\ sched = <<>>
    /\ pc = ""
    /\ builder = BuilderNew
    /\ ssa = NoTape
    /\ caller = ""
    /\ receiver = NoTape
    /\ choices = <<>>
    /\ reg_limit = 0
    /\ st = NoLocals
    /\ tape = [ssa |-> NoTape, asm |-> <<>>, reg_limit |-> 0]
    /\ panic = ""

\* schedule is called: its locals before the first loop (lines 36-52)
ScheduleInit ==
    /\ ctx \in Contexts(MaxCtxNodes)
    /\ sd = [NoSchedule EXCEPT !.loop = "accumulate", !.todo = <<ctx.root>>]
    /\ point = NoPoint
    /\ Idle

\* An iteration of `while let Some(node) = todo.pop()`, first loop
Accumulate ==
    /\ sd.loop = "accumulate"
    /\ sd.todo # <<>>
    /\ sd' = accumulate(sd, ctx)
    /\ UNCHANGED <<ctx, point, machine>>

\* The first loop ends; the second starts from the root's index (line 68)
AccumulateDone ==
    /\ sd.loop = "accumulate"
    /\ sd.todo = <<>>
    /\ sd' = [sd EXCEPT !.loop = "flatten",
                        !.todo = <<get_by_value(sd.nodes, ctx.root)>>]
    /\ UNCHANGED <<ctx, point, machine>>

\* An iteration of `while let Some(index) = todo.pop()`, second loop
Flatten ==
    /\ sd.loop = "flatten"
    /\ sd.todo # <<>>
    /\ sd' = flatten(sd, ctx)
    /\ UNCHANGED <<ctx, point, machine>>

\* The second loop ends: out.reverse() and Scheduled::new (lines 102-103)
FlattenDone ==
    /\ sd.loop = "flatten"
    /\ sd.todo = <<>>
    /\ sd' = [sd EXCEPT !.loop = "done",
                        !.out = reversed(@),
                        !.root = get_by_value(sd.nodes, ctx.root)]
    /\ UNCHANGED <<ctx, point, machine>>

ScheduleNext == Accumulate \/ AccumulateDone \/ Flatten \/ FlattenDone

\* schedule is a sequential function: while an iteration is possible, one is
\* taken
ScheduleSpec == ScheduleInit /\ [][ScheduleNext]_vars /\ WF_vars(ScheduleNext)

\* The nodes of the Context c that its root reaches
CtxReach(c) == ReachFrom(c.ops, c.root, {c.root})

\* No node that the root reaches has the same child twice
DistinctChildren(c) ==
    \A i \in CtxReach(c) : c.ops[i].kind = "Binary" => c.ops[i].a # c.ops[i].b

\* The NodeIndex values of the list that schedule returned
OutIndices == {sd.out[p].index : p \in 1..Len(sd.out)}

\* C22: when schedule returns, each child of each node of the list is the
\* node of a strictly earlier element, also when a node is shared by
\* several parents.
C22_TopologicallySorted ==
    sd.loop = "done" =>
        \A p \in 1..Len(sd.out) : \A c \in Children(sd.out[p].op) :
            \E q \in 1..(p - 1) : sd.out[q].index = c

\* C22, its case: schedule has returned a list in which one node is a child
\* of two different nodes
C22_Witness ==
    /\ sd.loop = "done"
    /\ \E p, q \in 1..Len(sd.out) :
          /\ p # q
          /\ Children(sd.out[p].op) \cap Children(sd.out[q].op) # {}

\* The list that schedule returned holds every node the root reaches, each
\* exactly once, and the root last
CompleteRootLast ==
    /\ {sd.nodes[k] : k \in OutIndices} = CtxReach(ctx)
    /\ Len(sd.out) = Cardinality(CtxReach(ctx))
    /\ sd.out[Len(sd.out)].index = sd.root
    /\ sd.nodes[sd.root] = ctx.root

\* C29: on a DAG whose nodes have pairwise distinct children, schedule never
\* fails its assert, eventually returns, and what it returns holds every
\* node the root reaches exactly once, the root last.
C29_TerminatesComplete ==
    /\ [](DistinctChildren(ctx) => sd.loop # "panic")
    /\ [](DistinctChildren(ctx) /\ sd.loop = "done" => CompleteRootLast)
    /\ (DistinctChildren(ctx) ~> sd.loop = "done")

\* C29, its case: schedule has returned a list of three or more nodes on a
\* DAG with distinct children and a node shared by two parents
C29_Witness ==
    /\ sd.loop = "done"
    /\ DistinctChildren(ctx)
    /\ Len(sd.out) >= 3
    /\ \E p, q \in 1..Len(sd.out) :
          p # q /\ Children(sd.out[p].op) \cap Children(sd.out[q].op) # {}

----------------------------------------------------------------------------
(* PointEval (fidget-core): a Tape, the choices buffer and an evaluator.    *)
(* Of the Tape only choice_count() matters here.  Beside the fields, point  *)
(* records history: evals, the number of eval_p calls made; written[k], the *)
(* number of the eval_p call whose evaluator wrote choices[k], 0 when none  *)
(* has since the buffer was last filled; last, the last method called;      *)
(* passed, the slice that call passed to the tape if it was simplify.       *)

MaxChoices == 2
MaxEvals == 2

\* The Tapes a PointEval is made from
PointTapes == {[choice_count |-> n] : n \in 0..MaxChoices}

\* From<Tape> for PointEval
PointEvalFrom(t) ==
    [made |-> TRUE, tape |-> t, choices |-> Fill("Unknown", t.choice_count),
     evals |-> 0, written |-> Fill(0, t.choice_count), last |-> "from",
     passed |-> <<>>]

\* An eval_p that leaves the buffer as the last evaluation left it: what C28
\* must tell apart from eval_p
keep_choices(p) == p

\* PointEval::reset_choices: self.choices.fill(Choice::Unknown)
reset_choices(p) ==
    [p EXCEPT !.choices = Fill("Unknown", Len(@)),
              !.written = Fill(0, Len(@))]

\* self.eval.eval_p(x, y, z, self.choices.as_mut_slice()): the evaluator
\* writes the entries in W, entry k with val[k] (val is a function on W); a
\* slice keeps its length
evaluator_writes(p, W, val) ==
    [p EXCEPT !.choices = [k \in 1..Len(@) |-> IF k \in W THEN val[k] ELSE @[k]],
              !.written = [k \in 1..Len(@) |-> IF k \in W THEN p.evals ELSE @[k]]]

\* PointEval::eval_p
eval_p(p, W, val) ==
    evaluator_writes([reset_choices(p) EXCEPT !.evals = @ + 1,
                                              !.last = "eval_p",
                                              !.passed = <<>>],
                     W, val)

\* PointEval::simplify: &self, and the tape is given &self.choices
point_simplify(p) == [p EXCEPT !.last = "simplify", !.passed = p.choices]

PointInit ==
    /\ point = NoPoint
    /\ ctx = NoCtx
    /\ sd = NoSchedule
    /\ Idle

PointFrom ==
    /\ ~point.made
    /\ \E t \in PointTapes : point' = PointEvalFrom(t)
    /\ UNCHANGED <<ctx, sd, machine>>

PointEvalP ==
    /\ point.made
    /\ point.evals < MaxEvals
    /\ \E W \in SUBSET (1..Len(point.choices)) :
       \E val \in [W -> Choice] :
          point' = eval_p(point, W, val)
    /\ UNCHANGED <<ctx, sd, machine>>

PointSimplify ==
    /\ point.made
    /\ point' = point_simplify(point)
    /\ UNCHANGED <<ctx, sd, machine>>

PointNext == PointFrom \/ PointEvalP \/ PointSimplify

PointSpec == PointInit /\ [][PointNext]_vars

\* The buffer has the length of tape.choice_count(), and an entry that the
\* most recent eval_p did not write is Unknown
BufferOfLastEval ==
    point.made =>
        /\ Len(point.choices) = point.tape.choice_count
        /\ \A k \in 1..Len(point.choices) :
              /\ point.written[k] \in {0, point.evals}
              /\ point.written[k] = 0 => point.choices[k] = "Unknown"
        /\ point.last = "from" =>
              \A k \in 1..Len(point.choices) : point.choices[k] = "Unknown"
        /\ point.last = "simplify" => point.passed = point.choices

\* C28: the choices buffer of a PointEval always has length
\* tape.choice_count(); it is all Unknown after construction; every eval_p
\* fills it with Unknown before its evaluator runs, so whatever entry is not
\* Unknown was written by the most recent eval_p, and that buffer is what
\* simplify passes; simplify changes neither the buffer nor the tape.
C28_ChoicesOfLastEval ==
    /\ []BufferOfLastEval
    /\ [][point'.last = "simplify" /\ point.made =>
             /\ point'.choices = point.choices
             /\ point'.tape = point.tape
             /\ point'.written = point.written]_vars

\* C28, its case: simplify after a second eval_p that wrote one entry and
\* left the other alone
C28_Witness ==
    /\ point.last = "simplify"
    /\ point.evals = 2
    /\ \E j, k \in 1..Len(point.choices) :
          /\ point.written[j] = 2
          /\ point.choices[j] \in {"Left", "Right"}
          /\ point.written[k] = 0

----------------------------------------------------------------------------
(* The claims about the rewrites of simplify and about the allocator *)

\* The call was given a tape whose root is a min/max, resolved by the last
\* entry of a well-formed slice to the one side `side`
RootResolved(side) ==
    /\ EndedOnOps
    /\ WellFormedChoices
    /\ receiver.tape[1] \in ChoiceOps
    /\ choices[Len(choices)] = side

\* C24: a live min/max resolved to one register operand that is not yet
\* active (the root's never is) emits no op and no slot, and the operand's
\* producing op writes the consumer's slot: the returned tape is shorter
\* than the receiver, its first op writes slot 0 and is no CopyReg.  Right on
\* a register-immediate min/max emits CopyImm(new_out, imm): at the root the
\* returned tape is that one op.
C24_CollapseOrCopy ==
    /\ (RootResolved("Left")
            \/ (RootResolved("Right") /\ receiver.tape[1] \in ChoiceRegRegOps)) =>
          /\ Returned
          /\ Len(tape.ssa.tape) < Len(receiver.tape)
          /\ OutSlot(tape.ssa, 1) = 0
          /\ tape.ssa.tape[1] # "CopyReg"
    /\ (RootResolved("Right") /\ receiver.tape[1] \in ChoiceRegImmOps) =>
          /\ Returned
          /\ tape.ssa.tape = <<"CopyImm">>
          /\ tape.ssa.data = <<0, receiver.data[3]>>

\* The allocator calls the walk has made so far, the one that panicked
\* included: one per emitted op, op_*(out, operands..) with the words that
\* were pushed onto data_out just before the call
Calls == [tape |-> st.ops_out, data |-> st.data_out]

\* The nodes (new slots) that call j mentions
Mentions(j) == {OutSlot(Calls, j)} \cup OperandSlots(Calls, j)

\* The first call that mentions node n
FirstMention(n) ==
    CHOOSE j \in 1..Len(Calls.tape) :
        /\ n \in Mentions(j)
        /\ \A i \in 1..(j - 1) : n \notin Mentions(i)

Served == Len(st.alloc.out) >= 1

\* allocations[n], u32::MAX for a node beyond the table
AllocationOf(a, n) ==
    IF n < Len(a.allocations) THEN At(a.allocations, n) ELSE U32_MAX

\* Registers are the slots below reg_limit, memory slots those from
\* reg_limit on, all below total_slots
SlotsSplitAtRegLimit(a) ==
    /\ \A n \in 0..(Len(a.allocations) - 1) :
          AllocationOf(a, n) # U32_MAX => AllocationOf(a, n) < a.total_slots
    /\ \A k \in 1..Len(a.spare_memory) :
          a.spare_memory[k] >= a.reg_limit /\ a.spare_memory[k] < a.total_slots
    /\ \A k \in 1..Len(a.spare_registers) :
          a.spare_registers[k] < a.reg_limit /\ a.spare_registers[k] < a.total_slots
    /\ \A k \in 1..Len(a.out) :
          a.out[k].op \in SpillOps =>
              /\ a.out[k].out < a.reg_limit
              /\ a.out[k].lhs >= a.reg_limit
              /\ a.out[k].lhs < a.total_slots

RECURSIVE SpillsUntilLoad(_, _, _)
SpillsUntilLoad(asm, p, m) ==
    IF p >= Len(asm) \/ (asm[p + 1].op = "Load" /\ asm[p + 1].lhs = m) THEN <<>>
    ELSE IF asm[p + 1].op = "Store" /\ asm[p + 1].lhs = m
         THEN <<p + 1>> \o SpillsUntilLoad(asm, p + 1, m)
         ELSE SpillsUntilLoad(asm, p + 1, m)

BindingsConsistent(a) ==
    /\ \A r \in 0..(a.reg_limit - 1) :
          At(a.registers, r) # U32_MAX =>
              AllocationOf(a, At(a.registers, r)) = r
    /\ \A n \in 0..(Len(a.allocations) - 1) :
          AllocationOf(a, n) < a.reg_limit =>
              At(a.registers, AllocationOf(a, n)) = n
    /\ \A j, k \in 1..Len(a.spare_registers) :
          a.spare_registers[j] = a.spare_registers[k] => j = k
    /\ \A k \in 1..Len(a.spare_registers) :
          At(a.registers, a.spare_registers[k]) = U32_MAX
    /\ (a.spare_registers = <<>> /\ a.total_slots >= a.reg_limit) =>
          \A r \in 0..(a.reg_limit - 1) : At(a.registers, r) # U32_MAX

----------------------------------------------------------------------------
(* The asm tape against the SSA tape of the same call *)

\* In the Tape t, every register-register op whose two operands are
\* distinct slots reads them from two distinct registers.  The ops of the
\* asm tape that are no Load or Store stand in the order of the SSA ops.
RegRegOperandsDistinct(t) ==
    \A i \in 1..Len(t.ssa.tape) :
        (/\ i <= Len(AsmOpsOnly(t.asm))
         /\ t.ssa.tape[i] \in RegRegOps \cup ChoiceRegRegOps
         /\ t.ssa.data[Offset(t.ssa, i) + 1] # t.ssa.data[Offset(t.ssa, i) + 2])
            => AsmOpsOnly(t.asm)[i].lhs # AsmOpsOnly(t.asm)[i].rhs

----------------------------------------------------------------------------
(* The allocator when the walk is over *)

\* The allocator a holds nothing: no node has an allocation, no register is
\* bound, and every register and memory slot ever introduced is in its
\* spare pool
AllocatorHoldsNothing(a) ==
    /\ \A n \in 1..Len(a.allocations) : a.allocations[n] = U32_MAX
    /\ \A r \in 1..Len(a.registers) : a.registers[r] = U32_MAX
    /\ Len(a.spare_registers) + Len(a.spare_memory) = a.total_slots

----------------------------------------------------------------------------
(* SsaTapeEval::f called again on the same evaluator *)

\* In execution order (from the last op of t.tape down to the first), every
\* slot an op of t reads is the output slot of an op that ran before it
WrittenBeforeRead(t) ==
    \A i \in 1..Len(t.tape) :
        \A s \in OperandSlots(t, i) :
            \E j \in (i + 1)..Len(t.tape) : OutSlot(t, j) = s

\* What the second of two calls of f on one evaluator of t returns: the
\* evaluator is made by get_evaluator, f is called at p1 and then at p2 on
\* the workspace the first call left
SecondCall(t, p1, p2) == f(t, f(t, Fill(0, Len(t.tape)), p1).slots, p2)

\* What f returns on t does not depend on an earlier call on the same
\* evaluator: no call panics, a second call returns what the first call of
\* a fresh evaluator returns, every slot index is below tape.len() and every
\* slot is written before it is read
ForgetsEarlierCalls(t) ==
    /\ SlotsBelowLen(t)
    /\ WrittenBeforeRead(t)
    /\ \A p1 \in Samples, p2 \in Samples :
          /\ ~SecondCall(t, p1, p2).panic
          /\ SecondCall(t, p1, p2).value = Eval(t, p2).value

============================================================================
